---- MODULE Spec2Model ----
(***************************************************************************)
(* Model of src/rust-hello-world/src/main.rs: the pipeline that pulls      *)
(* Biosample documents from a MongoDB cursor and appends one row per       *)
(* decodable Attribute element and one row per decodable Package to the    *)
(* DuckDB tables `attribute` and `package`.                                *)
(*                                                                         *)
(* The process is modelled twice, side by side: one copy per value of      *)
(* args.verbose.  Both copies are given the same documents and the same    *)
(* answers from the sink and the source, so that what the verbose flag     *)
(* (and the progress total) can change is visible as a difference between  *)
(* the copies.  Every variable that belongs to the process or to its sink  *)
(* is a function of the copy.                                              *)
(***************************************************************************)
EXTENDS Integers, Sequences, FiniteSets, TLC

(* ------------------------------ bounds -------------------------------- *)

\* Documents the cursor yields in one run, at most.
MaxDocs == 2

(* --------------------------- program constants ------------------------ *)

\* unwrap_or(-1) on the parsed identifier.
Sentinel == -1
\* default_value of --total-biosamples.
DefaultTotalBiosamples == 45000000
\* Decimal digits of i64::MAX, 9223372036854775807.
MaxI64Digits == 19

Verbose == BOOLEAN

(* ------------------------- raw values (inputs) ------------------------ *)

\* A raw JSON/BSON member that the shapes expect to be text: missing (or
\* null), a string, or a value of another type.
Absent == [t |-> "absent", v |-> ""]
Str(s) == [t |-> "str", v |-> s]
Other == [t |-> "other", v |-> ""]

\* The document's id member; its text is kept as a sequence of characters
\* because the code parses it.
IdAbsent == [t |-> "absent", v |-> <<>>]
IdStr(chars) == [t |-> "str", v |-> chars]
IdOther == [t |-> "other", v |-> <<>>]

\* Elements of an Attributes.Attribute array.
ElemAge ==
    [isObject |-> TRUE, content |-> Str("5"), attribute_name |-> Str("age"),
     harmonized_name |-> Absent, display_name |-> Absent, unit |-> Absent,
     extra |-> FALSE]
ElemColor ==
    [isObject |-> TRUE, content |-> Str("red"), attribute_name |-> Str("color"),
     harmonized_name |-> Str("colour"), display_name |-> Str("Color"),
     unit |-> Str("nm"), extra |-> TRUE]
\* not an object (a bare string)
ElemScalar ==
    [isObject |-> FALSE, content |-> Absent, attribute_name |-> Absent,
     harmonized_name |-> Absent, display_name |-> Absent, unit |-> Absent,
     extra |-> FALSE]
\* an object whose content is a number
ElemTyped ==
    [isObject |-> TRUE, content |-> Other, attribute_name |-> Str("depth"),
     harmonized_name |-> Absent, display_name |-> Absent, unit |-> Absent,
     extra |-> FALSE]

AttrArrays ==
    { <<>>, <<ElemAge, ElemColor>>, <<ElemTyped, ElemColor>>,
      <<ElemColor, ElemScalar, ElemAge>> }

\* The Attributes member of a document.
AttrsAbsent ==
    [present |-> FALSE, isObject |-> FALSE, hasAttribute |-> FALSE,
     isArray |-> FALSE, items |-> <<>>]
AttrsNotObject == [AttrsAbsent EXCEPT !.present = TRUE]
AttrsNoKey == [AttrsNotObject EXCEPT !.isObject = TRUE]
AttrsNotArray == [AttrsNoKey EXCEPT !.hasAttribute = TRUE]
AttrsArray(a) == [AttrsNotArray EXCEPT !.isArray = TRUE, !.items = a]

AttrsValues ==
    {AttrsAbsent, AttrsNotObject, AttrsNoKey, AttrsNotArray}
        \cup {AttrsArray(a) : a \in AttrArrays}

\* The Package member of a document.
PkgAbsent ==
    [present |-> FALSE, isObject |-> FALSE, content |-> Absent,
     display_name |-> Absent, extra |-> FALSE]
PkgOk ==
    [present |-> TRUE, isObject |-> TRUE, content |-> Str("P1"),
     display_name |-> Absent, extra |-> TRUE]
PkgScalar == [PkgAbsent EXCEPT !.present = TRUE]

PkgValues == {PkgAbsent, PkgOk, PkgScalar}

IdNumeric == <<"1", "2", "3">>
IdText == <<"a", "b", "c">>
IdTexts == {IdNumeric, IdText}
\* Further identifier texts, tried on one document each.
IdNegative == <<"-", "7">>
IdPlus == <<"+", "5">>
IdMixed == <<"1", "x">>
IdEmpty == <<>>
IdSign == <<"-">>
\* twenty nines: more than an i64 holds
IdHuge == [i \in 1..20 |-> "9"]
MoreIdTexts == {IdNegative, IdPlus, IdMixed, IdEmpty, IdSign, IdHuge}

\* What the cursor can hold: documents with a text id, and two records that
\* do not deserialize as a Biosample.
GoodDocs ==
    { [id |-> IdStr(i), Attributes |-> a, Package |-> p] :
        i \in IdTexts, a \in AttrsValues, p \in PkgValues }
    \cup
    { [id |-> IdStr(i), Attributes |-> AttrsArray(<<ElemAge>>), Package |-> PkgOk] :
        i \in MoreIdTexts }
BadDocs ==
    { [id |-> IdAbsent, Attributes |-> AttrsArray(<<ElemAge>>), Package |-> PkgOk],
      [id |-> IdOther, Attributes |-> AttrsArray(<<ElemAge>>), Package |-> PkgOk] }
RawDocs == GoodDocs \cup BadDocs

NoDoc == [id |-> IdAbsent, Attributes |-> AttrsAbsent, Package |-> PkgAbsent]

\* --limit values tried: 0 (all) and a cap of one document.
Limits == {0, 1}

(* ----------------------------- pure code ------------------------------ *)

\* Option<String>
None == [some |-> FALSE, v |-> ""]
Some(s) == [some |-> TRUE, v |-> s]

\* serde: a member of type Option<String>
IsOptString(raw) == raw.t \in {"absent", "str"}
OptString(raw) == IF raw.t = "str" THEN Some(raw.v) ELSE None

\* opt.as_deref().unwrap_or(d)
UnwrapOr(opt, d) == IF opt.some THEN opt.v ELSE d

NoAttributeData ==
    [content |-> None, attribute_name |-> None, harmonized_name |-> None,
     display_name |-> None, unit |-> None, extra |-> FALSE]

\* serde_json::from_value::<AttributeData>(attr_value.clone())
FromValueAttributeData(val) ==
    IF /\ val.isObject
       /\ IsOptString(val.content)
       /\ IsOptString(val.attribute_name)
       /\ IsOptString(val.harmonized_name)
       /\ IsOptString(val.display_name)
       /\ IsOptString(val.unit)
    THEN [ok |-> TRUE,
          data |-> [content |-> OptString(val.content),
                    attribute_name |-> OptString(val.attribute_name),
                    harmonized_name |-> OptString(val.harmonized_name),
                    display_name |-> OptString(val.display_name),
                    unit |-> OptString(val.unit),
                    extra |-> val.extra]]
    ELSE [ok |-> FALSE, data |-> NoAttributeData]

NoPackageData == [content |-> None, display_name |-> None, extra |-> FALSE]

\* serde_json::from_value::<PackageData>(package.clone())
FromValuePackageData(val) ==
    IF /\ val.isObject
       /\ IsOptString(val.content)
       /\ IsOptString(val.display_name)
    THEN [ok |-> TRUE,
          data |-> [content |-> OptString(val.content),
                    display_name |-> OptString(val.display_name),
                    extra |-> val.extra]]
    ELSE [ok |-> FALSE, data |-> NoPackageData]

\* Mutant: id declared Option<String>, so any record deserializes.
DecodeBiosampleLenient(raw) == TRUE

\* Deserialization of a record as Biosample: id is a required String.
DecodeBiosample(raw) == raw.id.t = "str"

IsDigit(c) == c \in {"0", "1", "2", "3", "4", "5", "6", "7", "8", "9"}
DigitValue(c) ==
    CASE c = "0" -> 0 [] c = "1" -> 1 [] c = "2" -> 2 [] c = "3" -> 3
      [] c = "4" -> 4 [] c = "5" -> 5 [] c = "6" -> 6 [] c = "7" -> 7
      [] c = "8" -> 8 [] c = "9" -> 9

RECURSIVE DigitsValue(_, _)
DigitsValue(ds, acc) ==
    IF ds = <<>> THEN acc
    ELSE DigitsValue(Tail(ds), acc * 10 + DigitValue(Head(ds)))

RECURSIVE StripZeros(_)
StripZeros(ds) ==
    IF ds /= <<>> /\ Head(ds) = "0" THEN StripZeros(Tail(ds)) ELSE ds

\* str::parse::<i64>: an optional sign, then one or more decimal digits, an
\* error when the number does not fit.  Overflow is decided by the count of
\* significant digits: more than 19 never fit.  (Texts of exactly 19 digits
\* are not among the inputs: TLC's integers do not reach their values.)
ParseI64(chars) ==
    LET signed == chars /= <<>> /\ Head(chars) \in {"+", "-"}
        ds == IF signed THEN Tail(chars) ELSE chars
    IN  IF \/ ds = <<>>
           \/ \E i \in DOMAIN ds : ~IsDigit(ds[i])
           \/ Len(StripZeros(ds)) > MaxI64Digits
        THEN [ok |-> FALSE, value |-> 0]
        ELSE [ok |-> TRUE,
              value |-> IF signed /\ Head(chars) = "-"
                        THEN 0 - DigitsValue(ds, 0)
                        ELSE DigitsValue(ds, 0)]

\* Mutant: unwrap_or_default() in place of unwrap_or(-1).
RowIdDefault(b) ==
    LET r == ParseI64(b.id.v) IN IF r.ok THEN r.value ELSE 0

\* biosample.id.parse::<i64>().unwrap_or(-1)
RowId(b) ==
    LET r == ParseI64(b.id.v) IN IF r.ok THEN r.value ELSE Sentinel

\* params![...] of the attribute INSERT
AttrParams(attr, b) ==
    [content |-> UnwrapOr(attr.content, ""),
     attribute_name |-> UnwrapOr(attr.attribute_name, ""),
     id |-> RowId(b),
     harmonized_name |-> UnwrapOr(attr.harmonized_name, ""),
     display_name |-> UnwrapOr(attr.display_name, ""),
     unit |-> UnwrapOr(attr.unit, "")]

\* params![...] of the package INSERT
PkgParams(pkg, b) ==
    [content |-> UnwrapOr(pkg.content, ""),
     display_name |-> UnwrapOr(pkg.display_name, ""),
     id |-> RowId(b)]

(* ------------------------------- sink --------------------------------- *)

NoTable == [exists |-> FALSE, rows |-> <<>>]
EmptyTable == [exists |-> TRUE, rows |-> <<>>]

\* Mutant: the DROP statement leaves the table as it is.
DropTableKept(t, accepted) == [ok |-> accepted, table |-> t]

\* duckdb_conn.execute("DROP TABLE IF EXISTS t", [])
DropTableIfExists(t, accepted) ==
    IF accepted THEN [ok |-> TRUE, table |-> NoTable]
    ELSE [ok |-> FALSE, table |-> t]

\* duckdb_conn.execute("CREATE TABLE t (...)", []): an error when the table
\* is there already.
CreateTable(t, accepted) ==
    IF accepted /\ ~t.exists THEN [ok |-> TRUE, table |-> EmptyTable]
    ELSE [ok |-> FALSE, table |-> t]

\* stmt.execute(params![...]): one row appended when the sink accepts it.
Insert(t, row, accepted) ==
    IF accepted /\ t.exists
    THEN [ok |-> TRUE, table |-> [t EXCEPT !.rows = Append(@, row)]]
    ELSE [ok |-> FALSE, table |-> t]

\* Mutant: the error is dropped (`.ok()` in place of `?`).
QuestionIgnored(ok) == "running"

\* The `?` after a statement or a fetch: an error leaves main.
Question(ok) == IF ok THEN "running" ELSE "failed"

(* ------------------------------ state --------------------------------- *)

VARIABLES
    rerun,            \* this run is not the first against this output_db
    limit,            \* args.limit of this run
    pc,               \* where main is
    outcome,          \* "running", "ok" (main returned Ok) or "failed"
    cursor,           \* the MongoDB cursor: opened by find, records taken
    attribute,        \* the sink's attribute table
    package,          \* the sink's package table
    processed_count,
    pb,               \* the progress bar
    biosample,        \* the document bound by the while-let
    idx,              \* elements of attrs the for loop is done with
    diag,             \* stdout lines since the current document was pulled
    docStart,         \* the rows of both tables when it was pulled
    appended,         \* inserts the sink accepted in this run, per table
    fault,            \* the last step the environment made fail
    stale             \* output_db held rows when this run began (kept up
                      \* to the end of the DROP and CREATE statements)

vars ==
    <<rerun, limit, pc, outcome, cursor, attribute, package, processed_count,
      pb, biosample, idx, diag, docStart, appended, fault, stale>>

\* Args of copy v. The copies differ in --verbose and in --total-biosamples.
Args(v) ==
    [verbose |-> v,
     limit |-> limit,
     total_biosamples |->
        IF v THEN DefaultTotalBiosamples ELSE DefaultTotalBiosamples + 1]

NoPb == [len |-> 0, pos |-> 0, finished |-> FALSE]
NoCursor == [open |-> FALSE, taken |-> 0]
NoRows == [attribute |-> <<>>, package |-> <<>>]
NoneAppended == [attribute |-> 0, package |-> 0]

Line(msg, n) == [msg |-> msg, n |-> n]

\* if args.verbose { println!(...) }
Println(v, out, line) == IF Args(v).verbose THEN Append(out, line) ELSE out

At(v, stage) == pc[v] = stage /\ outcome[v] = "running"
Upd(f, stage, G(_)) == [v \in Verbose |-> IF At(v, stage) THEN G(v) ELSE f[v]]
Fault(stage, ok) ==
    [v \in Verbose |-> IF At(v, stage) /\ ~ok THEN stage ELSE fault[v]]

Init ==
    /\ rerun = FALSE
    /\ limit \in Limits
    /\ pc = [v \in Verbose |-> "connect"]
    /\ outcome = [v \in Verbose |-> "running"]
    /\ cursor = [v \in Verbose |-> NoCursor]
    /\ attribute = [v \in Verbose |-> NoTable]
    /\ package = [v \in Verbose |-> NoTable]
    /\ processed_count = [v \in Verbose |-> 0]
    /\ pb = [v \in Verbose |-> NoPb]
    /\ biosample = [v \in Verbose |-> NoDoc]
    /\ idx = [v \in Verbose |-> 0]
    /\ diag = [v \in Verbose |-> <<>>]
    /\ docStart = [v \in Verbose |-> NoRows]
    /\ appended = [v \in Verbose |-> NoneAppended]
    /\ fault = [v \in Verbose |-> "none"]
    /\ stale = [v \in Verbose |-> FALSE]

(* ------------------------------ startup ------------------------------- *)

\* ClientOptions::parse, Client::with_options, the find options.
Connect ==
    \E ok \in BOOLEAN :
        /\ \E v \in Verbose : At(v, "connect")
        /\ pc' = Upd(pc, "connect", LAMBDA v : IF ok THEN "find" ELSE pc[v])
        /\ outcome' = Upd(outcome, "connect", LAMBDA v : Question(ok))
        /\ diag' = Upd(diag, "connect", LAMBDA v :
              LET d == Println(v, diag[v], Line("Connecting to MongoDB", 0))
              IN  IF ok THEN Println(v, d, Line("Setting up DuckDB", 0)) ELSE d)
        /\ fault' = Fault("connect", ok)
        /\ UNCHANGED <<rerun, limit, cursor, attribute, package, processed_count,
                       pb, biosample, idx, docStart, appended, stale>>

\* collection.find(doc! {}, find_options).await?
Find ==
    \E ok \in BOOLEAN :
        /\ \E v \in Verbose : At(v, "find")
        /\ pc' = Upd(pc, "find", LAMBDA v : IF ok THEN "open" ELSE pc[v])
        /\ outcome' = Upd(outcome, "find", LAMBDA v : Question(ok))
        /\ cursor' = Upd(cursor, "find", LAMBDA v : [cursor[v] EXCEPT !.open = ok])
        /\ fault' = Fault("find", ok)
        /\ UNCHANGED <<rerun, limit, attribute, package, processed_count, pb,
                       biosample, idx, diag, docStart, appended, stale>>

\* Connection::open(&args.output_db)?
Open ==
    \E ok \in BOOLEAN :
        /\ \E v \in Verbose : At(v, "open")
        /\ pc' = Upd(pc, "open", LAMBDA v : IF ok THEN "drop_attribute" ELSE pc[v])
        /\ outcome' = Upd(outcome, "open", LAMBDA v : Question(ok))
        /\ fault' = Fault("open", ok)
        /\ UNCHANGED <<rerun, limit, cursor, attribute, package, processed_count,
                       pb, biosample, idx, diag, docStart, appended, stale>>

DropAttribute ==
    \E accepted \in BOOLEAN :
        /\ \E v \in Verbose : At(v, "drop_attribute")
        /\ attribute' = Upd(attribute, "drop_attribute", LAMBDA v :
              DropTableIfExists(attribute[v], accepted).table)
        /\ outcome' = Upd(outcome, "drop_attribute", LAMBDA v :
              Question(DropTableIfExists(attribute[v], accepted).ok))
        /\ pc' = Upd(pc, "drop_attribute", LAMBDA v :
              IF DropTableIfExists(attribute[v], accepted).ok
              THEN "drop_package" ELSE pc[v])
        /\ fault' = Fault("drop_attribute", accepted)
        /\ UNCHANGED <<rerun, limit, cursor, package, processed_count, pb,
                       biosample, idx, diag, docStart, appended, stale>>

DropPackage ==
    \E accepted \in BOOLEAN :
        /\ \E v \in Verbose : At(v, "drop_package")
        /\ package' = Upd(package, "drop_package", LAMBDA v :
              DropTableIfExists(package[v], accepted).table)
        /\ outcome' = Upd(outcome, "drop_package", LAMBDA v :
              Question(DropTableIfExists(package[v], accepted).ok))
        /\ pc' = Upd(pc, "drop_package", LAMBDA v :
              IF DropTableIfExists(package[v], accepted).ok
              THEN "create_attribute" ELSE pc[v])
        /\ fault' = Fault("drop_package", accepted)
        /\ UNCHANGED <<rerun, limit, cursor, attribute, processed_count, pb,
                       biosample, idx, diag, docStart, appended, stale>>

CreateAttribute ==
    \E accepted \in BOOLEAN :
        /\ \E v \in Verbose : At(v, "create_attribute")
        /\ attribute' = Upd(attribute, "create_attribute", LAMBDA v :
              CreateTable(attribute[v], accepted).table)
        /\ outcome' = Upd(outcome, "create_attribute", LAMBDA v :
              Question(CreateTable(attribute[v], accepted).ok))
        /\ pc' = Upd(pc, "create_attribute", LAMBDA v :
              IF CreateTable(attribute[v], accepted).ok
              THEN "create_package" ELSE pc[v])
        /\ fault' = Fault("create_attribute", accepted)
        /\ UNCHANGED <<rerun, limit, cursor, package, processed_count, pb,
                       biosample, idx, diag, docStart, appended, stale>>

CreatePackage ==
    \E accepted \in BOOLEAN :
        /\ \E v \in Verbose : At(v, "create_package")
        /\ package' = Upd(package, "create_package", LAMBDA v :
              CreateTable(package[v], accepted).table)
        /\ outcome' = Upd(outcome, "create_package", LAMBDA v :
              Question(CreateTable(package[v], accepted).ok))
        /\ pc' = Upd(pc, "create_package", LAMBDA v :
              IF CreateTable(package[v], accepted).ok
              THEN "setup" ELSE pc[v])
        /\ fault' = Fault("create_package", accepted)
        /\ UNCHANGED <<rerun, limit, cursor, attribute, processed_count, pb,
                       biosample, idx, diag, docStart, appended, stale>>

\* ProgressBar::new(total)
ProgressTotal(a) == IF a.limit > 0 THEN a.limit ELSE a.total_biosamples

\* The progress bar, processed_count and the two prepared INSERTs.
Setup ==
    \E accepted \in BOOLEAN :
        /\ \E v \in Verbose : At(v, "setup")
        /\ pb' = Upd(pb, "setup", LAMBDA v :
              [len |-> ProgressTotal(Args(v)), pos |-> 0, finished |-> FALSE])
        /\ processed_count' = Upd(processed_count, "setup", LAMBDA v : 0)
        /\ outcome' = Upd(outcome, "setup", LAMBDA v :
              Question(accepted /\ attribute[v].exists /\ package[v].exists))
        /\ pc' = Upd(pc, "setup", LAMBDA v :
              IF accepted /\ attribute[v].exists /\ package[v].exists
              THEN "try_next" ELSE pc[v])
        /\ fault' = Fault("setup", accepted)
        /\ stale' = Upd(stale, "setup", LAMBDA v : FALSE)
        /\ UNCHANGED <<rerun, limit, cursor, attribute, package, biosample, idx,
                       diag, docStart, appended>>

(* ------------------------------ the loop ------------------------------ *)

\* What cursor.try_next() can hand back: a record, the end of the stream,
\* or an error of the driver.
StreamResults ==
    {[kind |-> "doc", doc |-> d] : d \in RawDocs}
        \cup {[kind |-> "end", doc |-> NoDoc], [kind |-> "error", doc |-> NoDoc]}

\* FindOptions.limit(args.limit) when args.limit > 0; none otherwise.
CanYield(c, a) == c.taken < MaxDocs /\ (a.limit > 0 => c.taken < a.limit)

\* try_next().await: Ok(Some(biosample)), Ok(None) or Err.
TryNextResult(r) ==
    IF r.kind = "doc"
    THEN IF DecodeBiosample(r.doc) THEN "some" ELSE "err"
    ELSE IF r.kind = "end" THEN "none" ELSE "err"

\* while let Some(biosample) = cursor.try_next().await? { processed_count += 1; ...
TryNext ==
    \E r \in StreamResults :
        /\ \E v \in Verbose : At(v, "try_next")
        /\ r.kind = "doc" =>
              \A v \in Verbose : At(v, "try_next") => CanYield(cursor[v], Args(v))
        /\ cursor' = Upd(cursor, "try_next", LAMBDA v :
              IF r.kind = "doc" THEN [cursor[v] EXCEPT !.taken = @ + 1]
              ELSE cursor[v])
        /\ outcome' = Upd(outcome, "try_next", LAMBDA v :
              Question(TryNextResult(r) /= "err"))
        /\ pc' = Upd(pc, "try_next", LAMBDA v :
              CASE TryNextResult(r) = "some" -> "attributes"
                [] TryNextResult(r) = "none" -> "finish"
                [] OTHER -> pc[v])
        /\ processed_count' = Upd(processed_count, "try_next", LAMBDA v :
              IF TryNextResult(r) = "some" THEN processed_count[v] + 1
              ELSE processed_count[v])
        /\ pb' = Upd(pb, "try_next", LAMBDA v :
              IF TryNextResult(r) = "some"
              THEN [pb[v] EXCEPT !.pos = processed_count[v] + 1]
              ELSE pb[v])
        /\ biosample' = Upd(biosample, "try_next", LAMBDA v :
              IF TryNextResult(r) = "some" THEN r.doc ELSE biosample[v])
        /\ idx' = Upd(idx, "try_next", LAMBDA v :
              IF TryNextResult(r) = "some" THEN 0 ELSE idx[v])
        /\ diag' = Upd(diag, "try_next", LAMBDA v :
              IF TryNextResult(r) = "some" THEN <<>> ELSE diag[v])
        /\ docStart' = Upd(docStart, "try_next", LAMBDA v :
              IF TryNextResult(r) = "some"
              THEN [attribute |-> attribute[v].rows, package |-> package[v].rows]
              ELSE docStart[v])
        /\ fault' = Fault("try_next", r.kind = "end" \/ r.doc \in GoodDocs)
        /\ UNCHANGED <<rerun, limit, attribute, package, appended, stale>>

\* The chain of if-lets down to the array: the array's elements when every
\* link is there, and otherwise the line the failing link prints.
Navigate(a) ==
    IF ~a.present THEN [found |-> FALSE, msg |-> "No Attributes found"]
    ELSE IF ~a.isObject THEN [found |-> FALSE, msg |-> "Attributes is not an object"]
    ELSE IF ~a.hasAttribute THEN [found |-> FALSE, msg |-> "No Attribute field found"]
    ELSE IF ~a.isArray THEN [found |-> FALSE, msg |-> "Attribute is not an array"]
    ELSE [found |-> TRUE, msg |-> "Found attributes"]

\* attrs: the elements the for loop walks (none when the chain breaks).
Attrs(b) == IF Navigate(b.Attributes).found THEN b.Attributes.items ELSE <<>>

\* Mutant: the for loop breaks at the first element that does not decode.
AfterElemsBreak(b, done) ==
    IF done >= Len(Attrs(b)) THEN "package"
    ELSE IF done >= 1 /\ ~FromValueAttributeData(Attrs(b)[done]).ok THEN "package"
    ELSE "attr_elem"

\* Mutant: a broken chain goes on to the next document (`continue`).
AfterElemsContinue(b, done) ==
    IF ~Navigate(b.Attributes).found THEN "try_next"
    ELSE IF done >= Len(Attrs(b)) THEN "package" ELSE "attr_elem"

\* Where main goes once `done` elements of attrs are behind it.
AfterElems(b, done) == IF done >= Len(Attrs(b)) THEN "package" ELSE "attr_elem"

\* if let Some(attributes) = biosample.attributes { ... } up to the for loop.
Attributes ==
    /\ \E v \in Verbose : At(v, "attributes")
    /\ diag' = Upd(diag, "attributes", LAMBDA v :
          Println(v, diag[v],
                  Line(Navigate(biosample[v].Attributes).msg,
                       Len(Attrs(biosample[v])))))
    /\ idx' = Upd(idx, "attributes", LAMBDA v : 0)
    /\ pc' = Upd(pc, "attributes", LAMBDA v : AfterElems(biosample[v], 0))
    /\ UNCHANGED <<rerun, limit, outcome, cursor, attribute, package,
                   processed_count, pb, biosample, docStart, appended, fault,
                   stale>>

\* The element the for loop is at, decoded.
ElemResult(v) == FromValueAttributeData(Attrs(biosample[v])[idx[v] + 1])

\* Mutant: the INSERT sits inside the verbose branch.
AttrInsertWhenVerbose(v, accepted) ==
    IF Args(v).verbose
    THEN Insert(attribute[v], AttrParams(ElemResult(v).data, biosample[v]), accepted)
    ELSE [ok |-> TRUE, table |-> attribute[v]]

\* Mutant: the result of execute is not looked at.
AttrInsertUnchecked(v, accepted) ==
    [ok |-> TRUE,
     table |-> Insert(attribute[v], AttrParams(ElemResult(v).data, biosample[v]),
                      accepted).table]

\* attr_stmt.execute(params![...]) for that element
AttrInsert(v, accepted) ==
    Insert(attribute[v], AttrParams(ElemResult(v).data, biosample[v]), accepted)

\* One turn of `for attr_value in attrs`.
AttrElem ==
    \E accepted \in BOOLEAN :
        /\ \E v \in Verbose : At(v, "attr_elem")
        /\ diag' = Upd(diag, "attr_elem", LAMBDA v :
              IF ElemResult(v).ok
              THEN IF ElemResult(v).data.extra
                   THEN Println(v, diag[v], Line("Extra attribute fields found", 0))
                   ELSE diag[v]
              ELSE Println(v, diag[v], Line("Failed to parse attribute", 0)))
        /\ attribute' = Upd(attribute, "attr_elem", LAMBDA v :
              IF ElemResult(v).ok THEN AttrInsert(v, accepted).table
              ELSE attribute[v])
        /\ appended' = Upd(appended, "attr_elem", LAMBDA v :
              IF ElemResult(v).ok /\ AttrInsert(v, accepted).ok
              THEN [appended[v] EXCEPT !.attribute = @ + 1]
              ELSE appended[v])
        /\ outcome' = Upd(outcome, "attr_elem", LAMBDA v :
              IF ElemResult(v).ok THEN Question(AttrInsert(v, accepted).ok)
              ELSE outcome[v])
        /\ idx' = Upd(idx, "attr_elem", LAMBDA v :
              IF ElemResult(v).ok /\ Question(AttrInsert(v, accepted).ok) = "failed"
              THEN idx[v] ELSE idx[v] + 1)
        /\ pc' = Upd(pc, "attr_elem", LAMBDA v :
              IF ElemResult(v).ok /\ Question(AttrInsert(v, accepted).ok) = "failed"
              THEN pc[v] ELSE AfterElems(biosample[v], idx[v] + 1))
        /\ fault' = [v \in Verbose |->
              IF At(v, "attr_elem") /\ ElemResult(v).ok /\ ~accepted
              THEN "attr_elem" ELSE fault[v]]
        /\ UNCHANGED <<rerun, limit, cursor, package, processed_count, pb,
                       biosample, docStart, stale>>

\* The package, decoded.
PkgResult(v) == FromValuePackageData(biosample[v].Package)

\* pkg_stmt.execute(params![...])
PkgInsert(v, accepted) ==
    Insert(package[v], PkgParams(PkgResult(v).data, biosample[v]), accepted)

\* Mutant: the INSERT runs whether or not the package decoded.
PkgWritesUndecoded(v) == biosample[v].Package.present

\* Whether the package path comes to the INSERT.
PkgWrites(v) == biosample[v].Package.present /\ PkgResult(v).ok

\* if let Some(package) = &biosample.package { match from_value ... }
Package ==
    \E accepted \in BOOLEAN :
        /\ \E v \in Verbose : At(v, "package")
        /\ diag' = Upd(diag, "package", LAMBDA v :
              IF ~biosample[v].Package.present THEN diag[v]
              ELSE IF PkgResult(v).ok
                   THEN IF PkgResult(v).data.extra
                        THEN Println(v, diag[v], Line("Extra package fields found", 0))
                        ELSE diag[v]
                   ELSE Println(v, diag[v], Line("Failed to parse package", 0)))
        /\ package' = Upd(package, "package", LAMBDA v :
              IF PkgWrites(v) THEN PkgInsert(v, accepted).table ELSE package[v])
        /\ appended' = Upd(appended, "package", LAMBDA v :
              IF PkgWrites(v) /\ PkgInsert(v, accepted).ok
              THEN [appended[v] EXCEPT !.package = @ + 1]
              ELSE appended[v])
        /\ outcome' = Upd(outcome, "package", LAMBDA v :
              IF PkgWrites(v) THEN Question(PkgInsert(v, accepted).ok)
              ELSE outcome[v])
        /\ pc' = Upd(pc, "package", LAMBDA v :
              IF PkgWrites(v) /\ Question(PkgInsert(v, accepted).ok) = "failed"
              THEN pc[v] ELSE "try_next")
        /\ fault' = [v \in Verbose |->
              IF At(v, "package") /\ PkgWrites(v) /\ ~accepted
              THEN "package" ELSE fault[v]]
        /\ UNCHANGED <<rerun, limit, cursor, attribute, processed_count, pb,
                       biosample, idx, docStart, stale>>

\* pb.finish_with_message, the closing println!, Ok(())
Finish ==
    /\ \E v \in Verbose : At(v, "finish")
    /\ pb' = Upd(pb, "finish", LAMBDA v : [pb[v] EXCEPT !.finished = TRUE])
    /\ diag' = Upd(diag, "finish", LAMBDA v :
          Append(diag[v], Line("Processed biosamples total", processed_count[v])))
    /\ outcome' = Upd(outcome, "finish", LAMBDA v : "ok")
    /\ pc' = Upd(pc, "finish", LAMBDA v : "done")
    /\ UNCHANGED <<rerun, limit, cursor, attribute, package, processed_count,
                   biosample, idx, docStart, appended, fault, stale>>

\* The program is started again on the same output_db: a new process, the
\* tables as the last run left them.
Restart ==
    /\ \A v \in Verbose : outcome[v] /= "running"
    /\ rerun' = TRUE
    /\ limit' \in Limits
    /\ pc' = [v \in Verbose |-> "connect"]
    /\ outcome' = [v \in Verbose |-> "running"]
    /\ cursor' = [v \in Verbose |-> NoCursor]
    /\ processed_count' = [v \in Verbose |-> 0]
    /\ pb' = [v \in Verbose |-> NoPb]
    /\ biosample' = [v \in Verbose |-> NoDoc]
    /\ idx' = [v \in Verbose |-> 0]
    /\ diag' = [v \in Verbose |-> <<>>]
    /\ docStart' = [v \in Verbose |-> NoRows]
    /\ appended' = [v \in Verbose |-> NoneAppended]
    /\ fault' = [v \in Verbose |-> "none"]
    /\ stale' = [v \in Verbose |->
          attribute[v].rows /= <<>> \/ package[v].rows /= <<>>]
    /\ UNCHANGED <<attribute, package>>

Next ==
    \/ Connect
    \/ Find
    \/ Open
    \/ DropAttribute
    \/ DropPackage
    \/ CreateAttribute
    \/ CreatePackage
    \/ Setup
    \/ TryNext
    \/ Attributes
    \/ AttrElem
    \/ Package
    \/ Finish
    \/ Restart

Spec == Init /\ [][Next]_vars

(* ------------------- what the claims are stated with ------------------ *)

\* The expected results are written down from the specification, input by
\* input, and not with the operators that model the code.

\* An element that decodes as the Attribute shape: an object whose known
\* members are text or missing.
DecodesAsAttribute(e) == e \in {ElemAge, ElemColor}

ExpectedAttrRow(e, id) ==
    IF e = ElemAge
    THEN [content |-> "5", attribute_name |-> "age", id |-> id,
          harmonized_name |-> "", display_name |-> "", unit |-> ""]
    ELSE [content |-> "red", attribute_name |-> "color", id |-> id,
          harmonized_name |-> "colour", display_name |-> "Color", unit |-> "nm"]

RECURSIVE ExpectedAttrRows(_, _)
ExpectedAttrRows(items, id) ==
    IF items = <<>> THEN <<>>
    ELSE (IF DecodesAsAttribute(Head(items))
          THEN <<ExpectedAttrRow(Head(items), id)>> ELSE <<>>)
         \o ExpectedAttrRows(Tail(items), id)

\* The row identifier of a document: the integer its id text denotes, -1
\* when it denotes none.
ExpectedId(b) ==
    CASE b.id.v = <<"1", "2", "3">> -> 123
      [] b.id.v = <<"-", "7">> -> 0 - 7
      [] b.id.v = <<"+", "5">> -> 5
      [] OTHER -> 0 - 1

IdIsNumeric(b) == b.id.v \in {<<"1", "2", "3">>, <<"-", "7">>, <<"+", "5">>}

\* Attributes.Attribute is an array.
HasAttributeArray(b) ==
    /\ b.Attributes.present
    /\ b.Attributes.isObject
    /\ b.Attributes.hasAttribute
    /\ b.Attributes.isArray

ArrayItems(b) == IF HasAttributeArray(b) THEN b.Attributes.items ELSE <<>>

DecodesAsPackage(p) == p = PkgOk

ExpectedPkgRows(b) ==
    IF DecodesAsPackage(b.Package)
    THEN <<[content |-> "P1", display_name |-> "", id |-> ExpectedId(b)]>>
    ELSE <<>>

\* biosample[v] is the document pulled last in this run.
HasDoc(v) ==
    /\ processed_count[v] > 0
    /\ pc[v] \in {"attributes", "attr_elem", "package", "try_next", "finish", "done"}

\* Elements of the array the loop is done with.
ElemsDone(v) ==
    IF pc[v] = "attributes" THEN 0
    ELSE IF pc[v] = "attr_elem" THEN idx[v]
    ELSE Len(ArrayItems(biosample[v]))

\* The package path of the document is behind main.
PkgDone(v) == pc[v] \in {"try_next", "finish", "done"}

\* Rows appended to a table since the document was pulled.
NewRows(table, start) == SubSeq(table.rows, Len(start) + 1, Len(table.rows))

DdlStages ==
    {"drop_attribute", "drop_package", "create_attribute", "create_package"}
AfterDdl ==
    {"setup", "try_next", "attributes", "attr_elem", "package", "finish", "done"}
AfterDrops == {"create_attribute", "create_package"} \cup AfterDdl

Reported(v) ==
    \/ pb[v].finished
    \/ \E i \in DOMAIN diag[v] : diag[v][i].msg = "Processed biosamples total"

(* ------------------------------- claims ------------------------------- *)

\* C1: for a document whose Attributes.Attribute is an array, the rows in
\* the attribute table are those that were there when the document was
\* pulled (the rows of the earlier documents), followed by one row per
\* element that decodes among the elements the loop is done with, in the
\* array's order; an element that does not decode adds nothing and the
\* elements after it still get their rows.
C1_AttributeRowsPerElement ==
    \A v \in Verbose :
        (HasDoc(v) /\ HasAttributeArray(biosample[v])) =>
            attribute[v].rows =
                docStart[v].attribute
                    \o ExpectedAttrRows(
                           SubSeq(ArrayItems(biosample[v]), 1, ElemsDone(v)),
                           ExpectedId(biosample[v]))

\* C1 witness: the second document of a run, an array whose middle element
\* does not decode, is done: its two rows follow the first document's rows.
C1_Witness ==
    \E v \in Verbose :
        /\ processed_count[v] = 2
        /\ pc[v] = "package"
        /\ biosample[v].Attributes.items = <<ElemColor, ElemScalar, ElemAge>>
        /\ docStart[v].attribute /= <<>>
        /\ Len(attribute[v].rows) = Len(docStart[v].attribute) + 2

\* C2: a document whose Attributes is missing, is no object, has no
\* "Attribute" key, or whose "Attribute" is no array, adds no attribute row
\* and never enters the element loop; the run aborts on it only when a
\* later step is failed by the sink or the stream; its package path is
\* taken (the package row is there once main is back at the stream).
C2_StructuralAbsence ==
    \A v \in Verbose :
        (HasDoc(v) /\ ~HasAttributeArray(biosample[v])) =>
            /\ pc[v] /= "attr_elem"
            /\ attribute[v].rows = docStart[v].attribute
            /\ outcome[v] = "failed" =>
                  (fault[v] = pc[v] /\ pc[v] \in {"package", "try_next"})
            /\ PkgDone(v) =>
                  package[v].rows =
                      docStart[v].package \o ExpectedPkgRows(biosample[v])

\* C2 witness: such a document with a package is done, its package row is
\* appended and main waits for the next document.
C2_Witness ==
    \E v \in Verbose :
        /\ HasDoc(v)
        /\ biosample[v].Attributes = AttrsNotArray
        /\ pc[v] = "try_next"
        /\ outcome[v] = "running"
        /\ Len(package[v].rows) = Len(docStart[v].package) + 1
        /\ attribute[v].rows = docStart[v].attribute

\* C3: a document adds exactly one package row when its Package decodes
\* and none when it has no Package or the Package does not decode; a
\* Package that does not decode neither aborts the run nor changes the
\* attribute rows of the document.
C3_PackageRows ==
    \A v \in Verbose :
        HasDoc(v) =>
            /\ package[v].rows =
                  docStart[v].package
                      \o (IF PkgDone(v) THEN ExpectedPkgRows(biosample[v]) ELSE <<>>)
            /\ ~DecodesAsPackage(biosample[v].Package) =>
                  /\ ~(pc[v] = "package" /\ outcome[v] = "failed")
                  /\ PkgDone(v) =>
                        attribute[v].rows =
                            docStart[v].attribute
                                \o ExpectedAttrRows(ArrayItems(biosample[v]),
                                                    ExpectedId(biosample[v]))

\* C3 witness: a document with attribute rows and a Package that is no
\* object is done, and no package row was added.
C3_Witness ==
    \E v \in Verbose :
        /\ HasDoc(v)
        /\ biosample[v].Package = PkgScalar
        /\ pc[v] = "try_next"
        /\ outcome[v] = "running"
        /\ package[v].rows = docStart[v].package
        /\ Len(attribute[v].rows) = Len(docStart[v].attribute) + 2

\* C4: every row a document adds to either table carries the document's
\* row identifier, the integer its id text denotes or -1; a text that is
\* no integer neither aborts the run nor loses a row.
C4_RowIdentifier ==
    \A v \in Verbose :
        HasDoc(v) =>
            LET a == NewRows(attribute[v], docStart[v].attribute)
                p == NewRows(package[v], docStart[v].package)
            IN  /\ \A i \in DOMAIN a : a[i].id = ExpectedId(biosample[v])
                /\ \A i \in DOMAIN p : p[i].id = ExpectedId(biosample[v])
                /\ ~IdIsNumeric(biosample[v]) =>
                      /\ outcome[v] = "failed" => fault[v] = pc[v]
                      /\ PkgDone(v) =>
                            /\ Len(a) = Len(ExpectedAttrRows(ArrayItems(biosample[v]), 0))
                            /\ Len(p) = Len(ExpectedPkgRows(biosample[v]))

\* C4 witness: a document with the id "abc" has added two attribute rows
\* and a package row, all with -1.
C4_Witness ==
    \E v \in Verbose :
        /\ HasDoc(v)
        /\ biosample[v].id.v = IdText
        /\ pc[v] = "try_next"
        /\ Len(NewRows(attribute[v], docStart[v].attribute)) = 2
        /\ Len(NewRows(package[v], docStart[v].package)) = 1
        /\ attribute[v].rows[Len(attribute[v].rows)].id = 0 - 1

NotesIdParseFailure(line) == line.msg = "Failed to parse id"

\* C5: with --verbose, a processed document whose id text is no integer,
\* and whose rows therefore carry -1, has a diagnostic line that notes the
\* identifier parse failure.
C5_IdParseFailureDiagnosed ==
    \A v \in Verbose :
        (/\ Args(v).verbose
         /\ HasDoc(v)
         /\ PkgDone(v)
         /\ ~IdIsNumeric(biosample[v])
         /\ NewRows(attribute[v], docStart[v].attribute) /= <<>>) =>
            \E i \in DOMAIN diag[v] : NotesIdParseFailure(diag[v][i])

\* C6: once the sink has rejected an append, the run has failed at that
\* statement: main stays there, nothing is reported, no further document
\* is pulled, and the tables hold exactly the rows the sink accepted before
\* (those of the earlier documents and of the elements before the failing
\* one).
C6_WriteFailureIsFatal ==
    \A v \in Verbose :
        fault[v] \in {"attr_elem", "package"} =>
            /\ outcome[v] = "failed"
            /\ pc[v] = fault[v]
            /\ ~Reported(v)
            /\ cursor[v].taken = processed_count[v]
            /\ Len(attribute[v].rows) = appended[v].attribute
            /\ Len(package[v].rows) = appended[v].package
            /\ package[v].rows = docStart[v].package
            /\ attribute[v].rows =
                  docStart[v].attribute
                      \o ExpectedAttrRows(
                             SubSeq(ArrayItems(biosample[v]), 1, ElemsDone(v)),
                             ExpectedId(biosample[v]))

\* C6 witness: the append for the third element of the second document was
\* rejected; the rows before it are in the table.
C6_Witness ==
    \E v \in Verbose :
        /\ fault[v] = "attr_elem"
        /\ processed_count[v] = 2
        /\ idx[v] = 2
        /\ docStart[v].attribute /= <<>>
        /\ Len(attribute[v].rows) = Len(docStart[v].attribute) + 1

\* C7 as claimed: the source is not queried, no document is fetched and no
\* row is appended before both tables are dropped and created again.
C7_NoQueryBeforeTables ==
    \A v \in Verbose :
        (\/ cursor[v].open
         \/ cursor[v].taken > 0
         \/ appended[v] /= NoneAppended) => pc[v] \in AfterDdl

\* C7 amended: no document is pulled from the cursor and no row is
\* appended before both tables are dropped and created again, and a DROP
\* or CREATE that fails ends the run there; the source query itself (find)
\* is issued before the tables are touched.
C7_NoDocumentBeforeTables ==
    \A v \in Verbose :
        /\ (\/ cursor[v].taken > 0
            \/ processed_count[v] > 0
            \/ biosample[v] /= NoDoc
            \/ appended[v] /= NoneAppended) =>
              (pc[v] \in AfterDdl /\ attribute[v].exists /\ package[v].exists)
        /\ fault[v] \in DdlStages =>
              /\ outcome[v] = "failed"
              /\ pc[v] = fault[v]
              /\ cursor[v].taken = 0
              /\ appended[v] = NoneAppended
        /\ pc[v] \in DdlStages => cursor[v].open

\* C7 witness: CREATE TABLE package failed, with the cursor open and no
\* document taken.
C7_Witness ==
    \E v \in Verbose :
        /\ fault[v] = "create_package"
        /\ outcome[v] = "failed"
        /\ cursor[v].open
        /\ cursor[v].taken = 0

\* C8: in a run after the first, once both DROPs have succeeded the tables
\* hold only rows this run appended, whatever happens later in the run.
C8_OnlyThisRunsRows ==
    \A v \in Verbose :
        (rerun /\ pc[v] \in AfterDrops) =>
            /\ Len(attribute[v].rows) = appended[v].attribute
            /\ Len(package[v].rows) = appended[v].package

\* C8 witness: the run before left rows in the sink; this run has dropped
\* and created both tables, and they are empty.
C8_Witness ==
    \E v \in Verbose :
        /\ rerun
        /\ stale[v]
        /\ pc[v] = "setup"
        /\ attribute[v] = EmptyTable
        /\ package[v] = EmptyTable

\* C9: the copy with --verbose (and another progress total) and the copy
\* without are at the same place with the same outcome, have pulled the
\* same documents and hold the same rows, at every step.
C9_VerboseChangesNothing ==
    /\ attribute[TRUE] = attribute[FALSE]
    /\ package[TRUE] = package[FALSE]
    /\ cursor[TRUE] = cursor[FALSE]
    /\ processed_count[TRUE] = processed_count[FALSE]
    /\ biosample[TRUE] = biosample[FALSE]
    /\ outcome[TRUE] = outcome[FALSE]
    /\ pc[TRUE] = pc[FALSE]

\* C9 witness: both copies have completed a run with rows in both tables;
\* their output and their progress totals differ.
C9_Witness ==
    /\ pc[TRUE] = "done" /\ pc[FALSE] = "done"
    /\ limit = 0
    /\ attribute[TRUE].rows /= <<>> /\ package[TRUE].rows /= <<>>
    /\ Len(diag[TRUE]) > Len(diag[FALSE])
    /\ pb[TRUE].len /= pb[FALSE].len

\* C10: once the cursor has failed to hand over a document (an error of the
\* driver, or a record whose id is missing or no text), the run has failed
\* at the fetch: the record is not bound and adds no row, nothing is
\* reported, and the tables hold the rows of the documents before it.
C10_FetchFailureIsFatal ==
    \A v \in Verbose :
        fault[v] = "try_next" =>
            /\ outcome[v] = "failed"
            /\ pc[v] = "try_next"
            /\ ~Reported(v)
            /\ biosample[v] \in GoodDocs \cup {NoDoc}
            /\ Len(attribute[v].rows) = appended[v].attribute
            /\ Len(package[v].rows) = appended[v].package
            /\ processed_count[v] = 0 =>
                  (attribute[v].rows = <<>> /\ package[v].rows = <<>>)
            /\ processed_count[v] > 0 =>
                  /\ attribute[v].rows =
                        docStart[v].attribute
                            \o ExpectedAttrRows(ArrayItems(biosample[v]),
                                                ExpectedId(biosample[v]))
                  /\ package[v].rows =
                        docStart[v].package \o ExpectedPkgRows(biosample[v])

\* C10 witness: after one document with rows, the cursor handed over a
\* record without a text id.
C10_Witness ==
    \E v \in Verbose :
        /\ fault[v] = "try_next"
        /\ processed_count[v] = 1
        /\ cursor[v].taken = 2
        /\ attribute[v].rows /= <<>>
        /\ package[v].rows /= <<>>

====
